---- MODULE Spec2Model ----
(***************************************************************************)
(* abeep: a model of the playback core of src/abeep.c.                     *)
(*                                                                         *)
(* The program is one sequential process.  Its state is the file-scope     *)
(* variables of abeep.c (buffer, buffer_used, buffer_size, sample_rate),   *)
(* the locals of play_blocks / play_buffered / play_silence /              *)
(* send_buffer_to_card that live across a call to the sound card, and the  *)
(* program counter pc.  The sound card (ALSA) is the environment: each     *)
(* snd_pcm_writei call accepts 0..n frames, reports an underrun (-EPIPE)   *)
(* or fails with another negative value.                                   *)
(*                                                                         *)
(* Observers that the C program does not hold but that its effects on the  *)
(* outside world define: accepted (frames the card took, in order),        *)
(* generated (frames handed to the buffer, in order), stderr, prepares,    *)
(* drained, closed, wrote, segs, wait_flushes, wait_underruns.             *)
(***************************************************************************)
EXTENDS Integers, Sequences, FiniteSets, TLC

(* ------------------------------------------------------------------ *)
(* Program constants                                                   *)
(* ------------------------------------------------------------------ *)
PERIODS_PER_BLOCK == 20
DEFAULT_FREQ == 440
DEFAULT_LENGTH == 200
DEFAULT_REPS == 1
DEFAULT_DELAY == 100
NO_END_DELAY == 0
YES_END_DELAY == 1
EPIPE == 32
SINTABLE_PHYSICAL_SIZE == 65536
SINTABLE_SIZE == SINTABLE_PHYSICAL_SIZE * 4

(* ------------------------------------------------------------------ *)
(* Bounds of the model                                                 *)
(* ------------------------------------------------------------------ *)
MaxBuf == 3
MaxReps == 2
MaxUnderruns == 1
MaxOff == 1         \* sintable arguments lie this close to a quarter boundary
MaxCalls == 2       \* calls of sintable in one run
MaxArgs == 3        \* options on the command line

(* Period sizes the card may report as buffer_size. *)
BufferSizes == 2..MaxBuf
(* Rates snd_pcm_hw_params_set_rate_near may settle on.  4000 gives a     *)
(* whole number of frames per millisecond, 5512 does not (5.512).        *)
SampleRates == {4000, 5512}
(* Values the command line may carry (all pass parse_command_line). *)
Freqs == {440, 19999}
LengthsMs == {1, 2}
DelaysMs == {0, 1}
(* ------------------------------------------------------------------ *)
(* 32-bit unsigned arithmetic of line 284 / 293                         *)
(* ------------------------------------------------------------------ *)
Half == 256 * 256

(* (a * b) % 2^16 and (a * b) \div 2^16 for a, b in 0..65535, computed   *)
(* bytewise so that no intermediate value exceeds 2^31.                  *)
MulLo16(a, b) ==
    ((((a \div 256) * b) % 256) * 256 + (a % 256) * b) % Half

MulHi16(a, b) ==
    LET p1 == (a \div 256) * b
        p0 == (a % 256) * b
    IN  (p1 \div 256) + (((p1 % 256) * 256 + p0) \div Half)

(* (ms * sample_rate + 500) / 1000 with the product and the sum taken    *)
(* modulo 2^32 (int * unsigned int is unsigned int).  The 32-bit value   *)
(* is kept as two 16-bit halves hi, lo.                                  *)
ms_to_frames(ms, rate) ==
    LET xh == (ms \div Half) % Half
        xl == ms % Half
        yh == (rate \div Half) % Half
        yl == rate % Half
        lo0 == MulLo16(xl, yl)
        hi0 == (MulHi16(xl, yl) + MulLo16(xh, yl) + MulLo16(xl, yh)) % Half
        lo1 == (lo0 + 500) % Half
        hi1 == (hi0 + ((lo0 + 500) \div Half)) % Half
    IN  (hi1 \div 1000) * Half + (((hi1 % 1000) * Half + lo1) \div 1000)

(* ------------------------------------------------------------------ *)
(* build_blocks                                                        *)
(* ------------------------------------------------------------------ *)
(* The quarter sine table: 0 at index 0, rising to the 16-bit ceiling   *)
(* at index SINTABLE_SIZE - 1.                                          *)
SINTABLE(k) == k \div 8

(* The data of SINTABLE_PHYSICAL (sintable.c): a quarter period rising   *)
(* from 0 to full scale.                                                 *)
SINTABLE_PHYSICAL(k) == k \div 2

(* An unsigned int as its two 16-bit halves; v is the value before it is *)
(* reduced modulo 2^32.                                                  *)
u32(v) == [hi |-> ((v \div Half) + Half) % Half, lo |-> v % Half]

mirror_without_last(idx, base) == SINTABLE_PHYSICAL_SIZE - (idx - base)

(* SINTABLE_PHYSICAL_SIZE - (index - base) - 1 *)
mirror(idx, base) == SINTABLE_PHYSICAL_SIZE - (idx - base) - 1

(* The subscript sintable computes, before reduction modulo 2^32. *)
subscript(idx) ==
    IF idx < SINTABLE_PHYSICAL_SIZE THEN idx
    ELSE IF idx < 2 * SINTABLE_PHYSICAL_SIZE
         THEN mirror(idx, SINTABLE_PHYSICAL_SIZE)
    ELSE IF idx < 3 * SINTABLE_PHYSICAL_SIZE
         THEN idx - 2 * SINTABLE_PHYSICAL_SIZE
    ELSE mirror(idx, 3 * SINTABLE_PHYSICAL_SIZE)

(* sintable(index) where the subscript lies inside the table. *)
sintable(idx) ==
    IF idx < 2 * SINTABLE_PHYSICAL_SIZE
    THEN SINTABLE_PHYSICAL(subscript(idx))
    ELSE 0 - SINTABLE_PHYSICAL(subscript(idx))

blk_frames(freq, rate) == (rate * PERIODS_PER_BLOCK) \div freq

(* blk[i] of a block of n frames: fraction_of_period is num / d. *)
blk_sample(n, i) ==
    LET d   == n - 1
        num == (i * PERIODS_PER_BLOCK) % d
        top == SINTABLE_SIZE - 1
    IN  IF 4 * num < d THEN SINTABLE((num * 4 * top) \div d)
        ELSE IF 2 * num < d THEN SINTABLE(((d - 2 * num) * 2 * top) \div d)
        ELSE IF 4 * num < 3 * d THEN 0 - SINTABLE(((2 * num - d) * 2 * top) \div d)
        ELSE 0 - SINTABLE(((d - num) * 4 * top) \div d)

(* ------------------------------------------------------------------ *)
(* State                                                               *)
(* ------------------------------------------------------------------ *)
VARIABLES
    parms,               \* the list of beep_parms_t, as parsed
    sample_rate,         \* negotiated rate
    buffer_size,         \* period size reported by the card
    buffer,              \* int16_t buffer[buffer_size]
    buffer_used,         \* frames held in buffer
    pc,                  \* where the process is
    node,                \* play_blocks: parms (index into the list)
    i,                   \* play_blocks: repetition index
    duration_in_frames,  \* play_blocks: frames of the tone still to play
    length,              \* play_buffered / play_silence: frames still to append
    ptr,                 \* play_buffered: offset of ptr into the block
    pb_ret,              \* which call of play_buffered is running
    sbc_ret,             \* who called send_buffer_to_card
    ret,                 \* send_buffer_to_card: last result of snd_pcm_writei
    stderr,              \* diagnostics written so far
    accepted,            \* frames the card has accepted
    generated,           \* frames appended to the buffer so far
    prepares,            \* calls of snd_pcm_prepare
    drained,             \* snd_pcm_drain was called
    closed,              \* snd_pcm_close was called
    wrote,               \* snd_pcm_writei was called at least once
    segs,                \* segments started by play_blocks
    wait_flushes,        \* send_buffer_to_card calls since the last append
    wait_underruns,      \* underruns reported in those calls
    idle,                \* parity of the latest writes in a row that took no frame
    optind,              \* parse_command_line: options taken from argv so far
    index,               \* sintable: the argument
    phys,                \* sintable: the subscript into SINTABLE_PHYSICAL
    sample,              \* sintable: the value returned
    out                  \* sintable: value returned for each argument so far

vars == <<parms, sample_rate, buffer_size, buffer, buffer_used, pc, node, i,
          duration_in_frames, length, ptr, pb_ret, sbc_ret, ret, stderr,
          accepted, generated, prepares, drained, closed, wrote, segs,
          wait_flushes, wait_underruns, idle, optind, index, phys, sample,
          out>>

(* The locals of sintable, which abeep.c does not call. *)
tbl == <<index, phys, sample, out>>

UNDERRUN_MSG == "WARNING: buffer underrun!"
FATAL_MSG == "Cannot send data to sound card!"

(* ------------------------------------------------------------------ *)
(* Inputs                                                              *)
(* ------------------------------------------------------------------ *)
beep_parms_t(f, l, r, d, e) ==
    [freq |-> f, length |-> l, reps |-> r, delay |-> d, end_delay |-> e]

Nodes ==
    {beep_parms_t(f, l, r, d, e) :
        f \in Freqs, l \in LengthsMs, r \in 1..MaxReps, d \in DelaysMs,
        e \in {NO_END_DELAY, YES_END_DELAY}}

(* Nodes of the two-node lists: the shortest tone, the longest delay; the *)
(* second node plays once, at another frequency than the first.          *)
ShortNodes == {n \in Nodes : n.length = 1 /\ n.delay = 1}

ParmLists ==
    {<<n>> : n \in Nodes}
    \cup {l \in {<<n, m>> : n \in ShortNodes, m \in ShortNodes} :
              l[2].reps = 1 /\ l[2].freq # l[1].freq}

(* abeep -l 97392 on a card that grants the requested 44100 Hz: the      *)
(* product 97392 * 44100 does not fit 32 bits.                           *)
LongList == <<beep_parms_t(440, 97392, 1, 100, NO_END_DELAY)>>

(* abeep -f 1 -l 1 -d 0: the lowest frequency -f accepts. *)
LowList == <<beep_parms_t(1, 1, 1, 0, NO_END_DELAY)>>

Configs ==
    {[parms |-> p, rate |-> r, size |-> s] :
        p \in ParmLists, r \in SampleRates, s \in BufferSizes}
    \cup {[parms |-> LongList, rate |-> 44100, size |-> MaxBuf]}
    \cup {[parms |-> LowList, rate |-> 4000, size |-> MaxBuf]}

Init ==
    \E c \in Configs :
        /\ parms = c.parms
        /\ sample_rate = c.rate
        /\ buffer_size = c.size
        /\ buffer = [j \in 0..(c.size - 1) |-> 0]
        /\ buffer_used = 0
        /\ pc = "play_blocks"
        /\ node = 1
        /\ i = 0
        /\ duration_in_frames = 0
        /\ length = 0
        /\ ptr = 0
        /\ pb_ret = "none"
        /\ sbc_ret = "none"
        /\ ret = 0
        /\ stderr = <<>>
        /\ accepted = <<>>
        /\ generated = <<>>
        /\ prepares = 0
        /\ drained = FALSE
        /\ closed = FALSE
        /\ wrote = FALSE
        /\ segs = <<>>
        /\ wait_flushes = 0
        /\ wait_underruns = 0
        /\ idle = 0
        /\ optind = 0
        /\ index = 0
        /\ phys = [hi |-> 0, lo |-> 0]
        /\ sample = 0
        /\ out = <<>>

(* ------------------------------------------------------------------ *)
(* Helpers of the buffer operations                                    *)
(* ------------------------------------------------------------------ *)
Min(a, b) == IF a < b THEN a ELSE b

cur_is_head == parms[1]

(* The block of the node being played. *)
cur == parms[node]
cur_blk_frames == blk_frames(cur.freq, sample_rate)

(* buffer[0 .. n) as a sequence. *)
Frames(buf, n) == [j \in 1..n |-> buf[j - 1]]

tocopy_whole_length(len, avail) == len

tocopy_keeps_one_free(len, avail) == Min(len, avail - 1)

(* line 253 / 269: tocopy = length < buffer_avail ? length : buffer_avail *)
tocopy(len, avail) == Min(len, avail)

memmove_nothing(buf, used, k) == buf

(* line 239: memmove(buffer, buffer + k, (used - k) * sizeof(int16_t)) *)
memmove(buf, used, k) ==
    [j \in DOMAIN buf |-> IF j < used - k THEN buf[j + k] ELSE buf[j]]

(* line 254: memcpy(buffer + used, ptr, n * sizeof(int16_t)), ptr at     *)
(* offset off of a block of bf frames.                                   *)
memcpy(buf, used, bf, off, n) ==
    [j \in DOMAIN buf |->
        IF used <= j /\ j < used + n THEN blk_sample(bf, off + (j - used))
        ELSE buf[j]]

(* line 270: memset(buffer + used, 0, n * sizeof(int16_t)) *)
memset(buf, used, n) ==
    [j \in DOMAIN buf |-> IF used <= j /\ j < used + n THEN 0 ELSE buf[j]]

wants_delay_both(rep, p) == rep < p.reps - 1 /\ p.end_delay # 0

(* line 292: i < parms->reps - 1 || parms->end_delay *)
wants_delay(rep, p) == rep < p.reps - 1 \/ p.end_delay # 0

(* ------------------------------------------------------------------ *)
(* play_blocks                                                         *)
(* ------------------------------------------------------------------ *)
(* line 281 / 295: while (parms) ... parms = parms->next; main 323.     *)
PlayBlocksNode ==
    /\ pc = "play_blocks"
    /\ IF node <= Len(parms)
       THEN /\ i' = 0
            /\ pc' = "for"
       ELSE /\ pc' = "cleanup"
            /\ i' = i
    /\ UNCHANGED <<tbl, optind, idle, parms, sample_rate, buffer_size, buffer, buffer_used, node,
                   duration_in_frames, length, ptr, pb_ret, sbc_ret, ret,
                   stderr, accepted, generated, prepares, drained, closed,
                   wrote, segs, wait_flushes, wait_underruns>>

(* line 282 - 284: for (i = 0; i < parms->reps; i++) and the size of    *)
(* the tone.                                                            *)
PlayBlocksRep ==
    /\ pc = "for"
    /\ IF i < cur.reps
       THEN /\ duration_in_frames' = ms_to_frames(cur.length, sample_rate)
            /\ segs' = Append(segs, [node |-> node, rep |-> i, kind |-> "tone",
                                     frames |-> duration_in_frames'])
            /\ pc' = "tone"
            /\ node' = node
       ELSE /\ node' = node + 1
            /\ pc' = "play_blocks"
            /\ UNCHANGED <<duration_in_frames, segs>>
    /\ UNCHANGED <<tbl, optind, idle, parms, sample_rate, buffer_size, buffer, buffer_used, i,
                   length, ptr, pb_ret, sbc_ret, ret, stderr, accepted,
                   generated, prepares, drained, closed, wrote,
                   wait_flushes, wait_underruns>>

(* A variant of line 285 - 289 without the loop: one call of            *)
(* play_buffered for the whole tone.                                    *)
PlayBlocksToneWhole ==
    /\ pc = "tone"
    /\ length' = duration_in_frames
    /\ pb_ret' = "last"
    /\ ptr' = 0
    /\ pc' = "play_buffered"
    /\ UNCHANGED <<tbl, optind, idle, parms, sample_rate, buffer_size, buffer,
                   buffer_used, node, i, duration_in_frames, sbc_ret, ret,
                   stderr, accepted, generated, prepares, drained, closed,
                   wrote, segs, wait_flushes, wait_underruns>>

(* line 285 - 289: whole blocks while more than a block remains, then   *)
(* the rest.                                                            *)
PlayBlocksTone ==
    /\ pc = "tone"
    /\ IF duration_in_frames > cur_blk_frames
       THEN /\ length' = cur_blk_frames
            /\ pb_ret' = "loop"
       ELSE /\ length' = duration_in_frames
            /\ pb_ret' = "last"
    /\ ptr' = 0
    /\ pc' = "play_buffered"
    /\ UNCHANGED <<tbl, optind, idle, parms, sample_rate, buffer_size, buffer, buffer_used, node,
                   i, duration_in_frames, sbc_ret, ret, stderr, accepted,
                   generated, prepares, drained, closed, wrote, segs,
                   wait_flushes, wait_underruns>>

(* line 292 - 293, and i++ of line 282 when no silence is played. *)
PlayBlocksDelay ==
    /\ pc = "delay"
    /\ IF wants_delay(i, cur)
       THEN /\ length' = ms_to_frames(cur.delay, sample_rate)
            /\ segs' = Append(segs, [node |-> node, rep |-> i,
                                     kind |-> "silence", frames |-> length'])
            /\ pc' = "play_silence"
            /\ i' = i
       ELSE /\ i' = i + 1
            /\ pc' = "for"
            /\ UNCHANGED <<length, segs>>
    /\ UNCHANGED <<tbl, optind, idle, parms, sample_rate, buffer_size, buffer, buffer_used, node,
                   duration_in_frames, ptr, pb_ret, sbc_ret, ret, stderr,
                   accepted, generated, prepares, drained, closed, wrote,
                   wait_flushes, wait_underruns>>

(* ------------------------------------------------------------------ *)
(* play_buffered                                                       *)
(* ------------------------------------------------------------------ *)
(* line 249 false: return to line 287 or to line 292. *)
PlayBufferedReturn ==
    /\ pc = "play_buffered"
    /\ length = 0
    /\ IF pb_ret = "loop"
       THEN /\ duration_in_frames' = duration_in_frames - cur_blk_frames
            /\ pc' = "tone"
       ELSE /\ duration_in_frames' = duration_in_frames
            /\ pc' = "delay"
    /\ UNCHANGED <<tbl, optind, idle, parms, sample_rate, buffer_size, buffer, buffer_used, node,
                   i, length, ptr, pb_ret, sbc_ret, ret, stderr, accepted,
                   generated, prepares, drained, closed, wrote, segs,
                   wait_flushes, wait_underruns>>

(* line 250 - 251: the buffer is full, call send_buffer_to_card. *)
PlayBufferedFlush ==
    /\ pc = "play_buffered"
    /\ length # 0
    /\ buffer_used = buffer_size
    /\ sbc_ret' = "play_buffered"
    /\ pc' = "send"
    /\ ret' = 0
    /\ wait_flushes' = wait_flushes + 1
    /\ UNCHANGED <<tbl, optind, idle, parms, sample_rate, buffer_size, buffer, buffer_used, node,
                   i, duration_in_frames, length, ptr, pb_ret, stderr,
                   accepted, generated, prepares, drained, closed, wrote,
                   segs, wait_underruns>>

(* line 252 - 257 *)
PlayBufferedCopy ==
    /\ pc = "play_buffered"
    /\ length # 0
    /\ buffer_used # buffer_size
    /\ LET n == tocopy(length, buffer_size - buffer_used)
           b == memcpy(buffer, buffer_used, cur_blk_frames, ptr, n)
       IN  /\ buffer' = b
           /\ buffer_used' = buffer_used + n
           /\ ptr' = ptr + n
           /\ length' = length - n
           /\ generated' = generated \o
                  [j \in 1..n |-> blk_sample(cur_blk_frames, ptr + j - 1)]
    /\ wait_flushes' = 0
    /\ wait_underruns' = 0
    /\ UNCHANGED <<tbl, optind, idle, parms, sample_rate, buffer_size, pc, node, i,
                   duration_in_frames, pb_ret, sbc_ret, ret, stderr, accepted,
                   prepares, drained, closed, wrote, segs>>

(* ------------------------------------------------------------------ *)
(* play_silence                                                        *)
(* ------------------------------------------------------------------ *)
(* line 265 false: return, then i++ of line 282. *)
PlaySilenceReturn ==
    /\ pc = "play_silence"
    /\ length = 0
    /\ i' = i + 1
    /\ pc' = "for"
    /\ UNCHANGED <<tbl, optind, idle, parms, sample_rate, buffer_size, buffer, buffer_used, node,
                   duration_in_frames, length, ptr, pb_ret, sbc_ret, ret,
                   stderr, accepted, generated, prepares, drained, closed,
                   wrote, segs, wait_flushes, wait_underruns>>

(* line 266 - 267 *)
PlaySilenceFlush ==
    /\ pc = "play_silence"
    /\ length # 0
    /\ buffer_used = buffer_size
    /\ sbc_ret' = "play_silence"
    /\ pc' = "send"
    /\ ret' = 0
    /\ wait_flushes' = wait_flushes + 1
    /\ UNCHANGED <<tbl, optind, idle, parms, sample_rate, buffer_size, buffer, buffer_used, node,
                   i, duration_in_frames, length, ptr, pb_ret, stderr,
                   accepted, generated, prepares, drained, closed, wrote,
                   segs, wait_underruns>>

(* line 268 - 272 *)
PlaySilenceFill ==
    /\ pc = "play_silence"
    /\ length # 0
    /\ buffer_used # buffer_size
    /\ LET n == tocopy(length, buffer_size - buffer_used)
       IN  /\ buffer' = memset(buffer, buffer_used, n)
           /\ buffer_used' = buffer_used + n
           /\ length' = length - n
           /\ generated' = generated \o [j \in 1..n |-> 0]
    /\ wait_flushes' = 0
    /\ wait_underruns' = 0
    /\ UNCHANGED <<tbl, optind, idle, parms, sample_rate, buffer_size, pc, node, i,
                   duration_in_frames, ptr, pb_ret, sbc_ret, ret, stderr,
                   accepted, prepares, drained, closed, wrote, segs>>

(* ------------------------------------------------------------------ *)
(* send_buffer_to_card                                                 *)
(* ------------------------------------------------------------------ *)
(* line 229 false: the buffer is empty, return to the caller. *)
(* A variant of the loop of line 229 that returns after any write that   *)
(* took frames.                                                          *)
SendReturnAfterOneWrite ==
    /\ pc = "send"
    /\ (buffer_used = 0 \/ ret > 0)
    /\ pc' = sbc_ret
    /\ ret' = 0
    /\ UNCHANGED <<tbl, optind, idle, parms, sample_rate, buffer_size, buffer,
                   buffer_used, node, i, duration_in_frames, length, ptr,
                   pb_ret, sbc_ret, stderr, accepted, generated, prepares,
                   drained, closed, wrote, segs, wait_flushes, wait_underruns>>

SendReturn ==
    /\ pc = "send"
    /\ buffer_used = 0
    /\ pc' = sbc_ret
    /\ ret' = 0
    /\ UNCHANGED <<tbl, optind, idle, parms, sample_rate, buffer_size, buffer, buffer_used, node,
                   i, duration_in_frames, length, ptr, pb_ret, sbc_ret,
                   stderr, accepted, generated, prepares, drained, closed,
                   wrote, segs, wait_flushes, wait_underruns>>

(* line 230, 239 - 240: snd_pcm_writei accepted k of buffer_used frames. *)
WriteOk(k) ==
    /\ pc = "send"
    /\ buffer_used # 0
    /\ k \in 0..buffer_used
    /\ ret' = k
    /\ wrote' = TRUE
    /\ idle' = IF k = 0 THEN 1 - idle ELSE 0
    /\ accepted' = accepted \o Frames(buffer, k)
    /\ buffer' = memmove(buffer, buffer_used, k)
    /\ buffer_used' = buffer_used - k
    /\ UNCHANGED <<tbl, optind, parms, sample_rate, buffer_size, pc, node, i,
                   duration_in_frames, length, ptr, pb_ret, sbc_ret, stderr,
                   generated, prepares, drained, closed, segs, wait_flushes,
                   wait_underruns>>

(* Variants of the underrun branch: one that drops the buffered frames, *)
(* one that ends the process, one that stays in the write loop.         *)
WriteUnderrunClears ==
    /\ pc = "send"
    /\ buffer_used # 0
    /\ prepares < MaxUnderruns
    /\ ret' = 0 - EPIPE
    /\ wrote' = TRUE
    /\ idle' = 0
    /\ stderr' = Append(stderr, UNDERRUN_MSG)
    /\ prepares' = prepares + 1
    /\ pc' = sbc_ret
    /\ buffer_used' = 0
    /\ wait_underruns' = IF sbc_ret = "cleanup" THEN wait_underruns
                         ELSE wait_underruns + 1
    /\ UNCHANGED <<tbl, optind, parms, sample_rate, buffer_size, buffer, node,
                   i, duration_in_frames, length, ptr, pb_ret, sbc_ret,
                   accepted, generated, drained, closed, segs, wait_flushes>>

WriteUnderrunExits ==
    /\ pc = "send"
    /\ buffer_used # 0
    /\ prepares < MaxUnderruns
    /\ ret' = 0 - EPIPE
    /\ wrote' = TRUE
    /\ idle' = 0
    /\ stderr' = Append(stderr, UNDERRUN_MSG)
    /\ prepares' = prepares + 1
    /\ pc' = "failed"
    /\ UNCHANGED <<tbl, optind, parms, sample_rate, buffer_size, buffer, buffer_used, node,
                   i, duration_in_frames, length, ptr, pb_ret, sbc_ret,
                   accepted, generated, drained, closed, segs, wait_flushes,
                   wait_underruns>>

WriteUnderrunRetries ==
    /\ pc = "send"
    /\ buffer_used # 0
    /\ prepares < MaxUnderruns
    /\ ret' = 0 - EPIPE
    /\ wrote' = TRUE
    /\ idle' = 0
    /\ stderr' = Append(stderr, UNDERRUN_MSG)
    /\ prepares' = prepares + 1
    /\ wait_underruns' = IF sbc_ret = "cleanup" THEN wait_underruns
                         ELSE wait_underruns + 1
    /\ UNCHANGED <<tbl, optind, parms, sample_rate, buffer_size, buffer, buffer_used, pc,
                   node, i, duration_in_frames, length, ptr, pb_ret, sbc_ret,
                   accepted, generated, drained, closed, segs, wait_flushes>>

(* line 230 - 234: snd_pcm_writei returned -EPIPE. *)
WriteUnderrun ==
    /\ pc = "send"
    /\ buffer_used # 0
    /\ prepares < MaxUnderruns
    /\ ret' = 0 - EPIPE
    /\ wrote' = TRUE
    /\ idle' = 0
    /\ stderr' = Append(stderr, UNDERRUN_MSG)
    /\ prepares' = prepares + 1
    /\ pc' = sbc_ret
    /\ wait_underruns' = IF sbc_ret = "cleanup" THEN wait_underruns
                         ELSE wait_underruns + 1
    /\ UNCHANGED <<tbl, optind, parms, sample_rate, buffer_size, buffer, buffer_used, node,
                   i, duration_in_frames, length, ptr, pb_ret, sbc_ret,
                   accepted, generated, drained, closed, segs, wait_flushes>>

(* A variant of the failure branch that prints and returns. *)
WriteFatalReturns ==
    /\ pc = "send"
    /\ buffer_used # 0
    /\ ret' = 0 - EPIPE - 1
    /\ wrote' = TRUE
    /\ idle' = 0
    /\ stderr' = Append(stderr, FATAL_MSG)
    /\ pc' = sbc_ret
    /\ UNCHANGED <<tbl, optind, parms, sample_rate, buffer_size, buffer, buffer_used, node,
                   i, duration_in_frames, length, ptr, pb_ret, sbc_ret,
                   accepted, generated, prepares, drained, closed, segs,
                   wait_flushes, wait_underruns>>

(* line 230, 235 - 237: any other negative result; exit(EXIT_FAILURE). *)
WriteFatal ==
    /\ pc = "send"
    /\ buffer_used # 0
    /\ ret' = 0 - EPIPE - 1
    /\ wrote' = TRUE
    /\ idle' = 0
    /\ stderr' = Append(stderr, FATAL_MSG)
    /\ pc' = "failed"
    /\ UNCHANGED <<tbl, optind, parms, sample_rate, buffer_size, buffer, buffer_used, node,
                   i, duration_in_frames, length, ptr, pb_ret, sbc_ret,
                   accepted, generated, prepares, drained, closed, segs,
                   wait_flushes, wait_underruns>>

(* ------------------------------------------------------------------ *)
(* cleanup                                                             *)
(* ------------------------------------------------------------------ *)
(* line 301 - 302 *)
CleanupFlush ==
    /\ pc = "cleanup"
    /\ buffer_used # 0
    /\ sbc_ret' = "cleanup"
    /\ pc' = "send"
    /\ ret' = 0
    /\ UNCHANGED <<tbl, optind, idle, parms, sample_rate, buffer_size, buffer, buffer_used, node,
                   i, duration_in_frames, length, ptr, pb_ret, stderr,
                   accepted, generated, prepares, drained, closed, wrote,
                   segs, wait_flushes, wait_underruns>>

(* A variant of cleanup without the loop of line 301 - 302. *)
CleanupCloseUnflushed ==
    /\ pc = "cleanup"
    /\ drained' = TRUE
    /\ closed' = TRUE
    /\ pc' = "done"
    /\ UNCHANGED <<tbl, optind, idle, parms, sample_rate, buffer_size, buffer,
                   buffer_used, node, i, duration_in_frames, length, ptr,
                   pb_ret, sbc_ret, ret, stderr, accepted, generated,
                   prepares, wrote, segs, wait_flushes, wait_underruns>>

(* line 303 - 304, then return EXIT_SUCCESS of main. *)
CleanupClose ==
    /\ pc = "cleanup"
    /\ buffer_used = 0
    /\ drained' = TRUE
    /\ closed' = TRUE
    /\ pc' = "done"
    /\ UNCHANGED <<tbl, optind, idle, parms, sample_rate, buffer_size, buffer, buffer_used, node,
                   i, duration_in_frames, length, ptr, pb_ret, sbc_ret, ret,
                   stderr, accepted, generated, prepares, wrote,
                   segs, wait_flushes, wait_underruns>>

(* ------------------------------------------------------------------ *)
(* Specifications                                                      *)
(* ------------------------------------------------------------------ *)
Program ==
    \/ PlayBlocksNode
    \/ PlayBlocksRep
    \/ PlayBlocksTone
    \/ PlayBlocksDelay
    \/ PlayBufferedReturn
    \/ PlayBufferedFlush
    \/ PlayBufferedCopy
    \/ PlaySilenceReturn
    \/ PlaySilenceFlush
    \/ PlaySilenceFill
    \/ SendReturn
    \/ CleanupFlush
    \/ CleanupClose

(* Any card: a write accepts 0..n frames, underruns or fails. *)
Next ==
    \/ Program
    \/ \E k \in 0..MaxBuf : WriteOk(k)
    \/ WriteUnderrun
    \/ WriteFatal

Spec == Init /\ [][Next]_vars

(* A card that reports an underrun on the first write and accepts at     *)
(* least one frame on every later write.  The process is sequential and  *)
(* always takes its next step.                                           *)
NextUnderrunFirst ==
    \/ Program
    \/ (~wrote /\ WriteUnderrun)
    \/ (wrote /\ \E k \in 1..MaxBuf : WriteOk(k))

SpecUnderrunFirst ==
    Init /\ [][NextUnderrunFirst]_vars /\ WF_vars(NextUnderrunFirst)

(* sintable on its own: the arguments are drawn around the quarter       *)
(* boundaries, below and above the logical period.                       *)
SintableIndices ==
    {q * SINTABLE_PHYSICAL_SIZE + o : q \in 0..6, o \in 0..MaxOff}
    \cup {q * SINTABLE_PHYSICAL_SIZE - o : q \in 1..6, o \in 1..MaxOff}

(* What a read outside SINTABLE_PHYSICAL may yield. *)
Int16Outside == {0 - 32768, 0, 32767}

Returned(idx, v) ==
    [a \in DOMAIN out \cup {idx} |-> IF a = idx THEN v ELSE out[a]]

playing ==
    <<sample_rate, buffer_size, buffer, buffer_used, node, i,
      duration_in_frames, length, ptr, pb_ret, sbc_ret, ret, stderr,
      accepted, generated, prepares, drained, closed, wrote, segs,
      wait_flushes, wait_underruns, idle>>

player == <<parms, playing>>

(* The process before main has run: static storage is zero. *)
InitSintable ==
    /\ parms = <<>>
    /\ sample_rate = 0
    /\ buffer_size = 0
    /\ buffer = <<>>
    /\ buffer_used = 0
    /\ pc = "sintable"
    /\ node = 1
    /\ i = 0
    /\ duration_in_frames = 0
    /\ length = 0
    /\ ptr = 0
    /\ pb_ret = "none"
    /\ sbc_ret = "none"
    /\ ret = 0
    /\ stderr = <<>>
    /\ accepted = <<>>
    /\ generated = <<>>
    /\ prepares = 0
    /\ drained = FALSE
    /\ closed = FALSE
    /\ wrote = FALSE
    /\ segs = <<>>
    /\ wait_flushes = 0
    /\ wait_underruns = 0
    /\ idle = 0
    /\ optind = 0
    /\ index = 0
    /\ phys = [hi |-> 0, lo |-> 0]
    /\ sample = 0
    /\ out = <<>>

SintableReturn(idx) ==
    /\ pc = "sintable"
    /\ Cardinality(DOMAIN out \cup {idx}) <= MaxCalls
    /\ idx < SINTABLE_SIZE
    /\ index' = idx
    /\ phys' = u32(subscript(idx))
    /\ sample' = sintable(idx)
    /\ out' = Returned(idx, sintable(idx))
    /\ UNCHANGED <<player, optind, pc>>

(* index >= SINTABLE_SIZE takes the last branch, whose subscript wraps   *)
(* around 2^32: the read is outside the table.                           *)
SintableReadsOutside(idx, v) ==
    /\ pc = "sintable"
    /\ Cardinality(DOMAIN out \cup {idx}) <= MaxCalls
    /\ idx >= SINTABLE_SIZE
    /\ index' = idx
    /\ phys' = u32(subscript(idx))
    /\ sample' = v
    /\ out' = Returned(idx, v)
    /\ UNCHANGED <<player, optind, pc>>

SintableFaults(idx) ==
    /\ pc = "sintable"
    /\ Cardinality(DOMAIN out \cup {idx}) <= MaxCalls
    /\ idx >= SINTABLE_SIZE
    /\ index' = idx
    /\ phys' = u32(subscript(idx))
    /\ pc' = "fault"
    /\ UNCHANGED <<player, optind, sample, out>>

NextSintable ==
    \E idx \in SintableIndices :
        \/ SintableReturn(idx)
        \/ \E v \in Int16Outside : SintableReadsOutside(idx, v)
        \/ SintableFaults(idx)

SpecSintable == InitSintable /\ [][NextSintable]_vars

(* ------------------------------------------------------------------ *)
(* parse_command_line                                                  *)
(* ------------------------------------------------------------------ *)
DEFAULT_END_DELAY == NO_END_DELAY

(* A float is modelled by an integer; NaN is the one float that compares *)
(* false with every number.                                              *)
NaN == 0 - Half * 16384
fge(a, b) == a # NaN /\ a >= b
flt(a, b) == a # NaN /\ a < b

(* What sscanf does with optarg: conv is its result (-1 at the end of    *)
(* the string, 0 when nothing converts, 1 after a conversion) and val    *)
(* the value it then stores.                                             *)
Scanned(vals) ==
    {[conv |-> 0 - 1, val |-> 0], [conv |-> 0, val |-> 0]}
    \cup {[conv |-> 1, val |-> v] : v \in vals}

FloatArgs == Scanned({0, 1, 19999, 20000, NaN})
IntArgs == Scanned({0 - 1, 0, 1, 2})

(* argval / argfreq after sscanf: they start at -1. *)
scanned(arg) == IF arg.conv = 1 THEN arg.val ELSE 0 - 1

DefaultNode ==
    beep_parms_t(DEFAULT_FREQ, DEFAULT_LENGTH, DEFAULT_REPS, DEFAULT_DELAY,
                 DEFAULT_END_DELAY)

(* main up to the call of parse_command_line: the default node, the card *)
(* opened by init.                                                       *)
InitParse ==
    /\ parms = <<DefaultNode>>
    /\ sample_rate \in SampleRates
    /\ buffer_size \in BufferSizes
    /\ buffer = [j \in 0..(buffer_size - 1) |-> 0]
    /\ buffer_used = 0
    /\ pc = "parse_command_line"
    /\ node = 1
    /\ i = 0
    /\ duration_in_frames = 0
    /\ length = 0
    /\ ptr = 0
    /\ pb_ret = "none"
    /\ sbc_ret = "none"
    /\ ret = 0
    /\ stderr = <<>>
    /\ accepted = <<>>
    /\ generated = <<>>
    /\ prepares = 0
    /\ drained = FALSE
    /\ closed = FALSE
    /\ wrote = FALSE
    /\ segs = <<>>
    /\ wait_flushes = 0
    /\ wait_underruns = 0
    /\ idle = 0
    /\ optind = 0
    /\ index = 0
    /\ phys = [hi |-> 0, lo |-> 0]
    /\ sample = 0
    /\ out = <<>>

(* result points to the last node of the list. *)
result == Len(parms)

Getopt ==
    /\ pc = "parse_command_line"
    /\ optind < MaxArgs
    /\ optind' = optind + 1

UsageBail == pc' = "usage_bail" /\ UNCHANGED parms

ParseFreq(arg) ==
    /\ Getopt
    /\ LET argfreq == scanned(arg)
       IN  IF arg.conv = 0 \/ fge(argfreq, 20000) \/ flt(argfreq, 1)
           THEN UsageBail
           ELSE /\ parms' = [parms EXCEPT ![result].freq = argfreq]
                /\ UNCHANGED pc
    /\ UNCHANGED <<tbl, playing>>

ParseLength(arg) ==
    /\ Getopt
    /\ LET argval == scanned(arg)
       IN  IF arg.conv = 0 \/ argval <= 0
           THEN UsageBail
           ELSE /\ parms' = [parms EXCEPT ![result].length = argval]
                /\ UNCHANGED pc
    /\ UNCHANGED <<tbl, playing>>

ParseReps(arg) ==
    /\ Getopt
    /\ LET argval == scanned(arg)
       IN  IF arg.conv = 0 \/ argval <= 0
           THEN UsageBail
           ELSE /\ parms' = [parms EXCEPT ![result].reps = argval]
                /\ UNCHANGED pc
    /\ UNCHANGED <<tbl, playing>>

ParseDelay(arg) ==
    /\ Getopt
    /\ LET argval == scanned(arg)
       IN  IF arg.conv = 0 \/ argval < 0
           THEN UsageBail
           ELSE /\ parms' = [parms EXCEPT ![result].delay = argval,
                                          ![result].end_delay = NO_END_DELAY]
                /\ UNCHANGED pc
    /\ UNCHANGED <<tbl, playing>>

ParseDelayEnd(arg) ==
    /\ Getopt
    /\ LET argval == scanned(arg)
       IN  IF arg.conv = 0 \/ argval < 0
           THEN UsageBail
           ELSE /\ parms' = [parms EXCEPT ![result].delay = argval,
                                          ![result].end_delay = YES_END_DELAY]
                /\ UNCHANGED pc
    /\ UNCHANGED <<tbl, playing>>

ParseNew ==
    /\ Getopt
    /\ parms' = Append(parms, DefaultNode)
    /\ UNCHANGED <<tbl, playing, pc>>

(* -h, --help, an unknown option, an option without its argument *)
ParseHelp ==
    /\ Getopt
    /\ UsageBail
    /\ UNCHANGED <<tbl, playing>>

(* getopt_long returns EOF: main goes on to build_blocks. *)
ParseEnd ==
    /\ pc = "parse_command_line"
    /\ pc' = "build_blocks"
    /\ UNCHANGED <<tbl, player, optind>>

has_nan == \E n \in 1..Len(parms) : parms[n].freq = NaN

BuildBlocks ==
    /\ pc = "build_blocks"
    /\ ~has_nan
    /\ pc' = "play_blocks"
    /\ UNCHANGED <<tbl, player, optind>>

(* 1.0 / NaN * sample_rate * PERIODS_PER_BLOCK is NaN, and its conversion *)
(* to snd_pcm_uframes_t is undefined: the block may come out empty, and   *)
(* main goes on to play_blocks, or so large that filling it faults.       *)
BuildBlocksOfNaN ==
    /\ pc = "build_blocks"
    /\ has_nan
    /\ pc' \in {"play_blocks", "fault"}
    /\ UNCHANGED <<tbl, player, optind>>

NextParse ==
    \/ \E arg \in FloatArgs : ParseFreq(arg)
    \/ \E arg \in IntArgs :
          \/ ParseLength(arg)
          \/ ParseReps(arg)
          \/ ParseDelay(arg)
          \/ ParseDelayEnd(arg)
    \/ ParseNew
    \/ ParseHelp
    \/ ParseEnd
    \/ BuildBlocks
    \/ BuildBlocksOfNaN

SpecParse == InitParse /\ [][NextParse]_vars

(* Any card, and a process that always takes its next step.  A write   *)
(* that takes no frame is a step (idle changes), so a card that never    *)
(* takes a frame keeps the process running in send_buffer_to_card.       *)
SpecFair == Init /\ [][Next]_vars /\ WF_vars(Next)

(* ------------------------------------------------------------------ *)
(* Properties                                                          *)
(* ------------------------------------------------------------------ *)
IsPrefix(s, t) == Len(s) <= Len(t) /\ SubSeq(t, 1, Len(s)) = s

InAppend == pc \in {"play_buffered", "play_silence"} /\ length # 0

(* C1: the fill count stays within 0..buffer_size, and buffer_size is    *)
(* still the size the buffer was allocated with.                         *)
C1_FillWithinCapacity ==
    /\ 0 <= buffer_used
    /\ buffer_used <= buffer_size
    /\ DOMAIN buffer = 0..(buffer_size - 1)

C1_Witness ==
    buffer_used = buffer_size /\ wrote /\ Len(accepted) > 0 /\ InAppend

(* C2: the frames the card accepted, followed by the frames in the       *)
(* buffer, are the frames generated so far, in generation order.         *)
C2_AcceptedThenBufferIsGenerated ==
    accepted \o Frames(buffer, buffer_used) = generated

(* A partial write that left two or more frames of differing value. *)
C2_Witness ==
    /\ pc = "send"
    /\ ret > 0
    /\ buffer_used >= 2
    /\ buffer[0] # buffer[1]

(* C3: a write that reports an underrun adds one diagnostic, prepares    *)
(* the card once, returns to the caller of send_buffer_to_card and       *)
(* leaves buffer, buffer_used and the accepted frames as they were.      *)
C3_UnderrunKeepsBuffer ==
    [][(pc = "send" /\ ret' = 0 - EPIPE) =>
          /\ buffer' = buffer
          /\ buffer_used' = buffer_used
          /\ accepted' = accepted
          /\ stderr' = Append(stderr, UNDERRUN_MSG)
          /\ prepares' = prepares + 1
          /\ pc' = sbc_ret
          /\ pc' \in {"play_buffered", "play_silence", "cleanup"}]_vars

C3_Witness ==
    /\ ret = 0 - EPIPE
    /\ pc = "play_buffered"
    /\ buffer_used = buffer_size
    /\ Len(stderr) = 1
    /\ prepares = 1

(* C4: with a card that underruns on the first write and accepts frames  *)
(* on every later one, the run completes, and at completion the card has *)
(* accepted every generated frame in order, the whole list was played    *)
(* and stderr holds exactly one underrun warning.                        *)
C4_UnderrunFirstLosesNothing ==
    /\ <>(pc = "done")
    /\ [](pc = "done" =>
            /\ accepted = generated
            /\ buffer_used = 0
            /\ node = Len(parms) + 1
            /\ stderr = <<UNDERRUN_MSG>>)

C4_Witness ==
    /\ pc = "done"
    /\ stderr = <<UNDERRUN_MSG>>
    /\ accepted = generated
    /\ Len(accepted) > buffer_size

(* C5: a write that fails with anything but an underrun ends the         *)
(* process at once: the step goes to the failed state, from which        *)
(* nothing changes any more, and there the card is neither drained nor   *)
(* closed.                                                               *)
C5_FatalWriteEndsProcess ==
    /\ [][(pc = "send" /\ ret' < 0 /\ ret' # 0 - EPIPE) =>
             /\ pc' = "failed"
             /\ generated' = generated
             /\ accepted' = accepted
             /\ stderr' = Append(stderr, FATAL_MSG)]_vars
    /\ [][pc = "failed" => UNCHANGED vars]_vars
    /\ [](pc = "failed" => ~drained /\ ~closed /\ ret < 0 /\ ret # 0 - EPIPE)

C5_Witness ==
    /\ pc = "failed"
    /\ Len(stderr) > 0
    /\ stderr[Len(stderr)] = FATAL_MSG
    /\ Len(generated) > Len(accepted)
    /\ Len(accepted) > 0

(* C6 as stated: where a sample is about to be stored, at most one       *)
(* send_buffer_to_card call has been made since the previous store.      *)
C6_ExactlyOneFlush ==
    (InAppend /\ buffer_used # buffer_size) => wait_flushes <= 1

(* C6: while the buffer is full every flush made so far for this append  *)
(* ended in an underrun (so another follows).  Where the sample is       *)
(* stored, either the buffer was not full (no flush), or the last flush  *)
(* emptied the buffer and the flushes number one more than the underruns *)
(* reported, or the last flush reported an underrun after the card had   *)
(* accepted some frames and the flushes number the underruns reported.   *)
C6_FlushesFollowUnderruns ==
    InAppend =>
        IF buffer_used = buffer_size
        THEN wait_flushes = wait_underruns
        ELSE \/ (wait_flushes = 0 /\ wait_underruns = 0)
             \/ (wait_flushes = wait_underruns + 1 /\ buffer_used = 0)
             \/ (wait_flushes = wait_underruns /\ wait_flushes >= 1
                    /\ buffer_used > 0)

C6_Witness ==
    /\ InAppend
    /\ buffer_used = 0
    /\ wait_flushes = 2
    /\ wait_underruns = 1

(* The segments the list asks for: per node and repetition, a tone, then *)
(* a silence if it is not the last repetition or the end delay is set.   *)
RECURSIVE RepSegs(_, _, _)
RepSegs(n, p, r) ==
    IF r >= p.reps THEN <<>>
    ELSE <<[node |-> n, rep |-> r, kind |-> "tone"]>>
         \o (IF r < p.reps - 1 \/ p.end_delay = YES_END_DELAY
             THEN <<[node |-> n, rep |-> r, kind |-> "silence"]>>
             ELSE <<>>)
         \o RepSegs(n, p, r + 1)

RECURSIVE ListSegs(_, _)
ListSegs(ps, n) ==
    IF n > Len(ps) THEN <<>> ELSE RepSegs(n, ps[n], 0) \o ListSegs(ps, n + 1)

SegKinds ==
    [j \in 1..Len(segs) |->
        [node |-> segs[j].node, rep |-> segs[j].rep, kind |-> segs[j].kind]]

(* C7: the segments started so far are a prefix of the segments the list *)
(* asks for, and all of them once the run is done.                       *)
C7_SilenceIffNotLastOrEndDelay ==
    /\ IsPrefix(SegKinds, ListSegs(parms, 1))
    /\ (pc = "done" => SegKinds = ListSegs(parms, 1))

(* A first node played twice with end delay (two silences), then a node  *)
(* played once without (none).                                           *)
C7_Witness ==
    /\ pc = "done"
    /\ Len(parms) = 2
    /\ parms[1].reps = 2
    /\ parms[1].end_delay = YES_END_DELAY
    /\ parms[2].reps = 1
    /\ parms[2].end_delay = NO_END_DELAY
    /\ Cardinality({j \in 1..Len(segs) : segs[j].kind = "silence"}) = 2
    /\ Cardinality({j \in 1..Len(segs) : segs[j].kind = "tone"}) = 3

(* The frames of one segment, as play_blocks takes them from the block   *)
(* of the segment's own node: whole blocks, each from the block's first  *)
(* frame, then the rest; zeros for a silence.                            *)
SegFrames(sg) ==
    LET p == parms[sg.node]
        b == blk_frames(p.freq, sample_rate)
    IN  [x \in 1..sg.frames |->
            IF sg.kind = "tone" THEN blk_sample(b, (x - 1) % b) ELSE 0]

RECURSIVE SegsStream(_, _)
SegsStream(ss, j) ==
    IF j > Len(ss) THEN <<>> ELSE SegFrames(ss[j]) \o SegsStream(ss, j + 1)

ExactFrames(ms, rate) ==
    ms * (rate \div 1000) + ((ms * (rate % 1000) + 500) \div 1000)

(* C9: every segment has round(ms * sample_rate / 1000) frames, ms being *)
(* its node's length for a tone and its node's delay for a silence.      *)
C9_SegmentFramesAreRounded ==
    \A j \in 1..Len(segs) :
        segs[j].frames =
            ExactFrames(IF segs[j].kind = "tone"
                        THEN parms[segs[j].node].length
                        ELSE parms[segs[j].node].delay, sample_rate)

RECURSIVE TotalFrames(_, _)
TotalFrames(ps, n) ==
    IF n > Len(ps) THEN 0
    ELSE LET p == ps[n]
             s == IF p.end_delay = YES_END_DELAY THEN p.reps ELSE p.reps - 1
         IN  p.reps * ExactFrames(p.length, sample_rate)
             + s * ExactFrames(p.delay, sample_rate)
             + TotalFrames(ps, n + 1)

(* C10: on completion the card has accepted, in total, the sum over the  *)
(* nodes of reps * F(length) + s * F(delay) frames, F the exact          *)
(* rounding.                                                             *)
C10_TotalFramesAccepted ==
    pc = "done" => Len(accepted) = TotalFrames(parms, 1)

(* C11: the card is drained and closed only once the whole list has been *)
(* played, the buffer is empty and the card has accepted every generated *)
(* frame; drain and close happen together, on the way to done.           *)
C11_DrainOnlyWhenEmpty ==
    /\ (drained \/ closed) =>
          /\ pc = "done"
          /\ drained /\ closed
          /\ buffer_used = 0
          /\ node = Len(parms) + 1
          /\ SegKinds = ListSegs(parms, 1)
          /\ accepted = generated
    /\ (pc = "cleanup" => node = Len(parms) + 1 /\ ~drained /\ ~closed)

(* Closed after cleanup had to flush a buffer that an underrun left      *)
(* untouched.                                                            *)
C11_Witness ==
    /\ closed
    /\ sbc_ret = "cleanup"
    /\ prepares = 1
    /\ wait_underruns = 0
    /\ Len(accepted) > 0

Ended == pc \in {"done", "failed"}

(* C12 as stated: every run of the process ends, whatever number of      *)
(* frames from 0 to n the card accepts on each write.                    *)
C12_EveryRunEnds == <>Ended

(* C12: every run ends, or from some point on it stays in the write loop *)
(* of send_buffer_to_card with every write accepting no frame.           *)
C12_EndsUnlessCardTakesNothing ==
    <>Ended \/ <>[](pc = "send" /\ buffer_used # 0 /\ ret = 0)

(* Completion after the card reported an underrun and accepted frames    *)
(* piecewise.                                                            *)
C12_Witness ==
    /\ pc = "done"
    /\ prepares = MaxUnderruns
    /\ Len(accepted) > buffer_size

(* One tone of n frames at the frequency of node p: the block of that    *)
(* node read cyclically from its start.                                  *)
OneTone(p, n) ==
    LET b == blk_frames(p.freq, sample_rate)
    IN  [x \in 1..n |-> blk_sample(b, (x - 1) % b)]

(* C13: a node played as consecutive tones with no silence between them  *)
(* (delay 0, no end delay) generates the frames of one tone of the       *)
(* summed length.                                                        *)
C13_ConsecutiveTonesAreOneTone ==
    (/\ pc = "done"
     /\ Len(parms) = 1
     /\ parms[1].delay = 0
     /\ parms[1].end_delay = NO_END_DELAY)
    => generated =
          OneTone(parms[1],
                  parms[1].reps * ms_to_frames(parms[1].length, sample_rate))

(* Number of frames of the segments before segment j. *)
RECURSIVE SegStart(_)
SegStart(j) == IF j <= 1 THEN 0 ELSE SegStart(j - 1) + segs[j - 1].frames

Abs(v) == IF v < 0 THEN 0 - v ELSE v

(* C14: a silence segment continues the waveform until its magnitude is  *)
(* below 1000: a zero frame of a silence segment is never immediately    *)
(* preceded by a frame of magnitude 1000 or more.                        *)
C14_SilenceStartsNearZero ==
    \A j \in 1..Len(segs) :
        segs[j].kind = "silence" =>
            \A x \in (SegStart(j) + 1)
                        ..Min(SegStart(j) + segs[j].frames, Len(generated)) :
                (x > 1 /\ generated[x] = 0) => Abs(generated[x - 1]) < 1000

(* C15 as stated: sintable(a + 4P) = sintable(a) and sintable(a + 2P) =  *)
(* -sintable(a) for every argument a, and the subscript lies inside the  *)
(* table for a < 4P.                                                     *)
C15_PeriodicAndAntisymmetric ==
    /\ \A a \in DOMAIN out :
          a + SINTABLE_SIZE \in DOMAIN out => out[a + SINTABLE_SIZE] = out[a]
    /\ \A a \in DOMAIN out :
          a + 2 * SINTABLE_PHYSICAL_SIZE \in DOMAIN out
              => out[a + 2 * SINTABLE_PHYSICAL_SIZE] = 0 - out[a]
    /\ (out # <<>> /\ index < SINTABLE_SIZE) => phys.hi = 0

(* C15: within the logical period, a + 2P < 4P, sintable(a + 2P) =       *)
(* -sintable(a); the subscript lies inside the table for every argument  *)
(* below 4P and outside it for every argument from 4P on.                *)
C15_AntisymmetricWithinPeriod ==
    /\ \A a \in DOMAIN out :
          (/\ a + 2 * SINTABLE_PHYSICAL_SIZE \in DOMAIN out
           /\ a + 2 * SINTABLE_PHYSICAL_SIZE < SINTABLE_SIZE)
              => out[a + 2 * SINTABLE_PHYSICAL_SIZE] = 0 - out[a]
    /\ (index \in DOMAIN out /\ index < SINTABLE_SIZE)
          => phys.hi = 0 /\ phys.lo \in 0..(SINTABLE_PHYSICAL_SIZE - 1)
    /\ index >= SINTABLE_SIZE => phys.hi # 0

(* Both mirrored quarters were read, half a period apart. *)
C15_Witness ==
    \E a \in DOMAIN out :
        /\ a >= SINTABLE_PHYSICAL_SIZE
        /\ index = a + 2 * SINTABLE_PHYSICAL_SIZE
        /\ index \in DOMAIN out
        /\ index < SINTABLE_SIZE
        /\ out[a] > 0
        /\ sample = 0 - out[a]

(* C16: every node that reaches play_blocks has 1 <= freq < 20000,       *)
(* length > 0, reps >= 1 and delay >= 0, and a process ended by a bad    *)
(* option has generated no sample.                                       *)
C16_NodesInRangeAtPlayBlocks ==
    /\ pc = "play_blocks" =>
          \A n \in 1..Len(parms) :
              /\ fge(parms[n].freq, 1) /\ flt(parms[n].freq, 20000)
              /\ parms[n].length > 0
              /\ parms[n].reps >= 1
              /\ parms[n].delay >= 0
    /\ pc = "usage_bail" => generated = <<>>

(* C17: a node whose frequency is below 2 Hz produces no oscillator      *)
(* output: every frame generated for its tone segments is zero.          *)
C17_BelowTwoHzIsSilent ==
    \A j \in 1..Len(segs) :
        (segs[j].kind = "tone" /\ parms[segs[j].node].freq < 2) =>
            \A x \in (SegStart(j) + 1)
                        ..Min(SegStart(j) + segs[j].frames, Len(generated)) :
                generated[x] = 0

(* C18: send_buffer_to_card returns either with the buffer empty after a *)
(* write that took frames, or right after a write that reported an       *)
(* underrun, which leaves the buffer as it was; it never returns with    *)
(* frames buffered after a write that took some; and every write is of   *)
(* buffer_used frames, a count in 1..buffer_size.                        *)
C18_ReturnsEmptyOrUnderrun ==
    /\ []((pc = "send" /\ buffer_used # 0) => buffer_used \in 1..buffer_size)
    /\ [][(pc = "send" /\ pc' \notin {"send", "failed"}) =>
             \/ buffer_used = 0 /\ ret >= 1 /\ buffer_used' = 0
             \/ /\ ret' = 0 - EPIPE
                /\ buffer_used # 0
                /\ buffer' = buffer /\ buffer_used' = buffer_used]_vars

(* Back in play_buffered or play_silence after one flush that emptied a  *)
(* full buffer without an underrun.                                      *)
C18_Witness ==
    /\ pc \in {"play_buffered", "play_silence"}
    /\ length # 0
    /\ wait_flushes = 1
    /\ wait_underruns = 0
    /\ buffer_used = 0
    /\ Len(accepted) >= buffer_size

(* The tone segment being played, and the frames generated for it. *)
CurSeg == segs[Len(segs)]
CurSegGenerated == Len(generated) - SegStart(Len(segs))

(* C19: a call of play_buffered for a tone reads from the first frame of *)
(* the block and never past its end; a call of the loop reads the whole  *)
(* block of B frames, the last call the frames that remain, at most B;   *)
(* and the frames appended for the segment total its D frames.           *)
C19_ToneReadsWithinBlock ==
    /\ pc = "play_buffered" =>
          /\ CurSeg.kind = "tone"
          /\ cur_blk_frames >= 1
          /\ 0 <= ptr /\ ptr + length <= cur_blk_frames
          /\ pb_ret = "loop" => ptr + length = cur_blk_frames
          /\ pb_ret = "last" => ptr + length = duration_in_frames
          /\ CurSegGenerated = (CurSeg.frames - duration_in_frames) + ptr
    /\ pc = "tone" =>
          CurSegGenerated = CurSeg.frames - duration_in_frames
    /\ pc = "delay" =>
          /\ CurSeg.kind = "tone"
          /\ CurSegGenerated = CurSeg.frames

(* A tone of more than two blocks has been played: two calls for a whole *)
(* block and one for the rest.                                           *)
C19_Witness ==
    /\ pc = "delay"
    /\ CurSeg.frames > 2 * cur_blk_frames
    /\ duration_in_frames = CurSeg.frames - 2 * cur_blk_frames
    /\ CurSegGenerated = CurSeg.frames

====
